---------------------------- MODULE Spec2Model ----------------------------
(***************************************************************************)
(* A model of coppa, a round-stepping simulator of the distribution of a   *)
(* chunked file from seeds to peers (src/src/lib.rs).                      *)
(*                                                                         *)
(* Vectors of the program are modelled as sequences; the program's         *)
(* 0-based index i is position i + 1 of the sequence (operator At).        *)
(* Option<T> is modelled as a sequence of length 0 (None) or 1 (Some), and *)
(* Option<usize> completion rounds as NONE or a natural number.            *)
(* Round.execution_time is wall-clock time and is not modelled.            *)
(***************************************************************************)
EXTENDS Integers, Sequences, FiniteSets, TLC

\* ------------------------------------------------------------------------
\* Bounds of the model
\* ------------------------------------------------------------------------
MaxChunks == 2
MaxPeers == 3
MaxRounds == 17

\* assert!(speed_fast <= 1000)
MaxNormalizedSpeed == 1000

NONE == -1

\* ------------------------------------------------------------------------
\* Generic helpers
\* ------------------------------------------------------------------------
At(v, i) == v[i + 1]

Min(a, b) == IF a < b THEN a ELSE b

Repeat(x, n) == [i \in 1..n |-> x]

Reverse(s) == [i \in 1..Len(s) |-> s[Len(s) + 1 - i]]

RemoveAt(s, k) == [i \in 1..(Len(s) - 1) |-> IF i < k THEN s[i] ELSE s[i + 1]]

RECURSIVE gcd(_, _)
gcd(a, b) == IF b = 0 THEN a ELSE gcd(b, a % b)

lcm(a, b) == IF a = 0 /\ b = 0 THEN 0 ELSE (a * b) \div gcd(a, b)

Perms(S) == {f \in [1..Cardinality(S) -> S] : \A x \in S : \E i \in DOMAIN f : f[i] = x}

\* ------------------------------------------------------------------------
\* Enumerations
\* ------------------------------------------------------------------------
Selfishness == {"Altruistic", "Selfish", "Freerider"}
SelfishnessDefault == "Altruistic"

Strategy == {"RarestFirst", "MostCommonFirst", "Uniform"}
StrategyDefault == "RarestFirst"

Speed == {"Fast", "Medium", "Slow"}
SpeedDefault == "Fast"

\* ------------------------------------------------------------------------
\* PeerConfig::from_string; a descriptor is a sequence of characters
\* ------------------------------------------------------------------------
ByteOr(config_string, i, dflt) ==
    IF i < Len(config_string) THEN At(config_string, i) ELSE dflt

PeerConfigFromString(config_string) ==
    LET c0 == ByteOr(config_string, 0, "a")
        c1 == ByteOr(config_string, 1, "r")
        c2 == ByteOr(config_string, 2, "f")
    IN  [selfishness |-> IF c0 = "s" THEN "Selfish"
                         ELSE IF c0 = "f" THEN "Freerider"
                         ELSE "Altruistic",
         strategy    |-> IF c1 = "m" THEN "MostCommonFirst"
                         ELSE IF c1 = "u" THEN "Uniform"
                         ELSE "RarestFirst",
         speed       |-> IF c2 = "m" THEN "Medium"
                         ELSE IF c2 = "s" THEN "Slow"
                         ELSE "Fast"]

\* ------------------------------------------------------------------------
\* Config
\* ------------------------------------------------------------------------
NoConfig ==
    [number_chunks |-> 0, number_peers |-> 0, number_seeds |-> 0,
     chunk_size |-> 0, peer_selfishness |-> <<>>, peer_strategies |-> <<>>,
     peer_speeds |-> <<>>]

\* mutant: as many seeds as peers are accepted
assert_common_parametersAllSeeds(number_chunks, number_peers, number_seeds, speed_fast, speed_medium, speed_slow) ==
    /\ number_chunks > 0
    /\ number_seeds > 0
    /\ number_peers >= number_seeds
    /\ speed_slow > 0
    /\ speed_medium >= speed_slow
    /\ speed_fast >= speed_medium

assert_common_parameters(number_chunks, number_peers, number_seeds, speed_fast, speed_medium, speed_slow) ==
    /\ number_chunks > 0
    /\ number_seeds > 0
    /\ number_peers > number_seeds
    /\ speed_slow > 0
    /\ speed_medium >= speed_slow
    /\ speed_fast >= speed_medium

\* The three speed tiers divided by their greatest common divisor.
NormalizedSpeeds(speed_fast, speed_medium, speed_slow) ==
    LET speed_gcd == gcd(gcd(speed_slow, speed_medium), speed_fast)
    IN  [speed_gcd |-> speed_gcd,
         fast      |-> speed_fast \div speed_gcd,
         medium    |-> speed_medium \div speed_gcd,
         slow      |-> speed_slow \div speed_gcd]

ChunkSizeOf(n) == lcm(lcm(n.slow, n.medium), n.fast)

\* The assertions of Config::from_counts.
FromCountsAccepts(a) ==
    /\ assert_common_parameters(a.number_chunks, a.number_peers, a.number_seeds,
                                a.speed_fast, a.speed_medium, a.speed_slow)
    /\ a.number_seeds + a.number_selfish + a.number_freeriders <= a.number_peers
    /\ NormalizedSpeeds(a.speed_fast, a.speed_medium, a.speed_slow).fast
           <= MaxNormalizedSpeed

\* The speed every peer gets in Config::from_counts: the local speed_fast,
\* already divided by speed_gcd, is divided by speed_gcd once more.
FromCountsPeerSpeed(n) == n.fast \div n.speed_gcd

from_counts(a) ==
    LET n == NormalizedSpeeds(a.speed_fast, a.speed_medium, a.speed_slow)
        selfishness ==
            Repeat("Altruistic",
                   a.number_peers - a.number_selfish - a.number_freeriders)
            \o Repeat("Selfish", a.number_selfish)
            \o Repeat("Freerider", a.number_freeriders)
    IN  [number_chunks    |-> a.number_chunks,
         number_peers     |-> a.number_peers,
         number_seeds     |-> a.number_seeds,
         chunk_size       |-> ChunkSizeOf(n),
         peer_selfishness |-> selfishness,
         peer_strategies  |-> Repeat(a.strategy, a.number_peers),
         peer_speeds      |-> Repeat(FromCountsPeerSpeed(n), a.number_peers)]

\* The assertions of Config::from_peer_config.
FromPeerConfigAccepts(a) ==
    /\ assert_common_parameters(a.number_chunks, a.number_peers, a.number_seeds,
                                a.speed_fast, a.speed_medium, a.speed_slow)
    /\ Len(a.peer_config) <= a.number_peers - a.number_seeds
    /\ NormalizedSpeeds(a.speed_fast, a.speed_medium, a.speed_slow).fast
           <= MaxNormalizedSpeed

\* The speed tier given to the peers no descriptor names.
TrailingSpeed == SpeedDefault

\* mutant: the medium and the slow tier are swapped
MapSpeedSwapped(s, n) ==
    IF s = "Fast" THEN n.fast ELSE IF s = "Medium" THEN n.slow ELSE n.medium

MapSpeed(s, n) ==
    IF s = "Fast" THEN n.fast ELSE IF s = "Medium" THEN n.medium ELSE n.slow

from_peer_config(a) ==
    LET n == NormalizedSpeeds(a.speed_fast, a.speed_medium, a.speed_slow)
        k == Len(a.peer_config)
        rest == a.number_peers - a.number_seeds - k
        peer_selfishness ==
            Repeat("Altruistic", a.number_seeds)
            \o [i \in 1..k |-> a.peer_config[i].selfishness]
            \o Repeat(SelfishnessDefault, rest)
        peer_strategies ==
            Repeat(StrategyDefault, a.number_seeds)
            \o [i \in 1..k |-> a.peer_config[i].strategy]
            \o Repeat(StrategyDefault, rest)
        peer_speeds ==
            Repeat("Fast", a.number_seeds)
            \o [i \in 1..k |-> a.peer_config[i].speed]
            \o Repeat(TrailingSpeed, rest)
    IN  [number_chunks    |-> a.number_chunks,
         number_peers     |-> a.number_peers,
         number_seeds     |-> a.number_seeds,
         chunk_size       |-> ChunkSizeOf(n),
         peer_selfishness |-> peer_selfishness,
         peer_strategies  |-> peer_strategies,
         peer_speeds      |-> [i \in 1..Len(peer_speeds) |-> MapSpeed(peer_speeds[i], n)]]


\* ------------------------------------------------------------------------
\* State
\* ------------------------------------------------------------------------
VARIABLES
    pc,                \* position of the program
    args,              \* the parameters the Config constructor was called with
    config,            \* the Config
    file,              \* Distribution.file
    peers,             \* Distribution.peers, indexed 0..number_peers-1
    number_seeds,      \* Distribution.number_seeds
    chunk_size,        \* Distribution.chunk_size
    rounds,            \* run: rounds
    current_round,     \* run: current_round
    shuffled_peers,    \* run: shuffled_peers
    temporary_chunks,  \* run: temporary_chunks
    exchanged_chunks,  \* run: exchanged_chunks of the round
    completed_peers,   \* run: completed_peers of the round
    completed_chunks,  \* run: completed_chunks of the round
    finished_uploads,  \* run: finished_uploads of the round
    position,          \* run: index into shuffled_peers of the scheduling loop
    events,            \* run: the calls the observer received, in order
    iterations,        \* history: number of iterations of the round loop begun
    round_start_peers  \* history: Distribution.peers when the round began

vars == <<pc, args, config, file, peers, number_seeds, chunk_size, rounds,
          current_round, shuffled_peers, temporary_chunks, exchanged_chunks,
          completed_peers, completed_chunks, finished_uploads, position,
          events, iterations, round_start_peers>>

configVars == <<args, config>>
distVars == <<file, peers, number_seeds, chunk_size>>
runVars == <<rounds, current_round, shuffled_peers, temporary_chunks,
             exchanged_chunks, completed_peers, completed_chunks,
             finished_uploads, position, events, iterations,
             round_start_peers>>

NumberPeers == Len(config.peer_speeds)
PeerIds == DOMAIN peers
ChunkIds == DOMAIN file.chunks

\* ------------------------------------------------------------------------
\* Entity model
\* ------------------------------------------------------------------------
ChunkNew(index, seeds) ==
    [index |-> index, completion_round |-> NONE, number_possessing_peers |-> seeds]

PeerNew(index, number_chunks, is_seed, selfishness, strategy, speed) ==
    [index            |-> index,
     selfishness      |-> selfishness,
     strategy         |-> strategy,
     speed            |-> speed,
     completion_round |-> IF is_seed THEN 0 ELSE NONE,
     possessed_chunks |-> [c \in 0..(number_chunks - 1) |-> is_seed],
     number_uploads   |-> 0,
     current_uploads  |-> <<>>,
     current_download |-> <<>>]

\* assert!(!is_seed || selfishness == Selfishness::Altruistic) for every peer
PeerNewAccepts(c) ==
    \A i \in 0..(c.number_seeds - 1) : At(c.peer_selfishness, i) = "Altruistic"

\* mutant: the completed chunks are not carried over to the next round
RoundNewChunksReset(previous_round) ==
    [completed_peers  |-> previous_round.completed_peers,
     completed_chunks |-> 0,
     exchanged_chunks |-> 0]

RoundNew(previous_round) ==
    [completed_peers  |-> previous_round.completed_peers,
     completed_chunks |-> previous_round.completed_chunks,
     exchanged_chunks |-> 0]

RECURSIVE SumCurrentSizeExcept(_, _)
SumCurrentSizeExcept(uploads, target_peer) ==
    IF uploads = <<>> THEN 0
    ELSE (IF Head(uploads).target_peer = target_peer THEN 0
          ELSE Head(uploads).current_size)
         + SumCurrentSizeExcept(Tail(uploads), target_peer)

\* mutant: a Selfish peer goes on serving after its completion
AllowsDownloadSelfishForever(self) ==
    self.selfishness = "Altruistic" \/ self.selfishness = "Selfish"

\* mutant: only a completed Selfish peer is refused
AllowsDownloadFreerider(self) ==
    ~(self.selfishness = "Selfish" /\ self.completion_round # NONE)

AllowsDownload(self) ==
    \/ self.selfishness = "Altruistic"
    \/ (self.selfishness = "Selfish" /\ self.completion_round = NONE)

\* mutant: the capacity in use for other targets is not subtracted
available_capacity_for_chunkUnshared(self, chunk_number, target_peer) ==
    IF AllowsDownload(self) /\ self.possessed_chunks[chunk_number]
    THEN self.speed
    ELSE 0

available_capacity_for_chunk(self, chunk_number, target_peer) ==
    LET allows_download == AllowsDownload(self)
        has_chunk == self.possessed_chunks[chunk_number]
        used_capacity == SumCurrentSizeExcept(self.current_uploads, target_peer)
    IN  IF allows_download /\ has_chunk
        THEN IF used_capacity > self.speed THEN 0 ELSE self.speed - used_capacity
        ELSE 0

\* 0 stands for None, k > 0 for Some(k - 1)
index_of_upload(self, chunk_number, target_peer) ==
    LET hits == {i \in 1..Len(self.current_uploads) :
                    /\ self.current_uploads[i].chunk_number = chunk_number
                    /\ self.current_uploads[i].target_peer = target_peer}
    IN  IF hits = {} THEN 0 ELSE CHOOSE i \in hits : \A j \in hits : i <= j

\* Peer::download: the peer as it is after the call
PeerDownload(self, download) ==
    LET index == index_of_upload(self, download.chunk_number, download.target_peer)
    IN  IF index > 0
        THEN [self EXCEPT !.current_uploads[index] = download]
        ELSE [self EXCEPT !.current_uploads = Append(@, download)]

\* mutant: the finished upload is counted and kept
chunk_upload_finishedKept(self, chunk_number, target_peer) ==
    LET index == index_of_upload(self, chunk_number, target_peer)
    IN  IF index > 0
        THEN [self EXCEPT !.number_uploads = @ + 1]
        ELSE self

chunk_upload_finished(self, chunk_number, target_peer) ==
    LET index == index_of_upload(self, chunk_number, target_peer)
    IN  IF index > 0
        THEN [self EXCEPT !.number_uploads = @ + 1,
                          !.current_uploads = RemoveAt(@, index)]
        ELSE self

\* Whether Peer::check_chunk_download_finished returns Some(download)
DownloadFinished(self, size) ==
    /\ self.current_download # <<>>
    /\ self.current_download[1].downloaded_size >= size

\* mutant: the finished download is dropped, the chunk is not marked
check_chunk_download_finishedUnmarked(self, size) ==
    IF DownloadFinished(self, size)
    THEN [self EXCEPT !.current_download = <<>>]
    ELSE self

\* Peer::check_chunk_download_finished: the peer as it is after the call
check_chunk_download_finished(self, size) ==
    IF DownloadFinished(self, size)
    THEN [self EXCEPT !.possessed_chunks[self.current_download[1].chunk_number] = TRUE,
                      !.current_download = <<>>]
    ELSE self

\* mutant: the speed of the target is not taken into account
desired_download_capacityOfSource(ps, chunk_number, source_peer, target_peer) ==
    available_capacity_for_chunk(ps[source_peer], chunk_number, target_peer)

desired_download_capacity(ps, chunk_number, source_peer, target_peer) ==
    LET upload_capacity ==
            available_capacity_for_chunk(ps[source_peer], chunk_number, target_peer)
        target_speed == ps[target_peer].speed
    IN  Min(target_speed, upload_capacity)

\* ------------------------------------------------------------------------
\* Orders of a round
\* ------------------------------------------------------------------------
\* slice.shuffle(rng): every arrangement of the slice may result
Shuffles(s) ==
    {q \in [1..Len(s) -> {s[i] : i \in 1..Len(s)}] :
        \A i \in 1..Len(s) : \E j \in 1..Len(s) : q[j] = s[i]}

\* mutant: all the peers are shuffled together
ShuffledPeersTogether(order, seeds) == Shuffles(order)

\* shuffled_peers[0..number_seeds].shuffle(rng);
\* shuffled_peers[number_seeds..].shuffle(rng)
ShuffledPeers(order, seeds) ==
    {a \o b : a \in Shuffles(SubSeq(order, 1, seeds)),
              b \in Shuffles(SubSeq(order, seeds + 1, Len(order)))}

\* mutant: the order is left as it is
SortByPossessionSkipped(order, f) == order

\* temporary_chunks.sort_by_key(|c| number_possessing_peers), a stable sort
SortByPossession(order, f) ==
    LET key(i) == At(f.chunks, order[i]).number_possessing_peers
        rank(k) == 1 + Cardinality({j \in 1..Len(order) :
                        \/ key(j) < key(k)
                        \/ (key(j) = key(k) /\ j < k)})
    IN  [i \in 1..Len(order) |-> order[CHOOSE k \in 1..Len(order) : rank(k) = i]]

\* Distribution::randomize_chunks: each maximal run of neighbours with equal
\* number_possessing_peers is shuffled in place
SameRun(order, f, i, j) ==
    \A k \in (Min(i, j))..(IF i < j THEN j ELSE i) :
        At(f.chunks, order[k]).number_possessing_peers
            = At(f.chunks, order[i]).number_possessing_peers

randomize_chunks(order, f) ==
    {q \in Shuffles(order) :
        \A i \in 1..Len(order) : \E j \in 1..Len(order) :
            SameRun(order, f, i, j) /\ q[i] = order[j]}

\* The chunk orders a peer of the given strategy may walk through
PeerChunks(strategy, order) ==
    IF strategy = "RarestFirst" THEN {order}
    ELSE IF strategy = "MostCommonFirst" THEN {Reverse(order)}
    ELSE Shuffles(order)

\* mutant: the seeds are asked first
SourcePositionsSeedsFirst(n, seeds) == [i \in 1..n |-> i - 1]

\* (number_seeds..number_peers).chain(0..number_seeds), as indices into
\* shuffled_peers
SourcePositions(n, seeds) == [i \in 1..n |-> (seeds + i - 1) % n]

\* The first (chunk, source) the search of a peer without download commits
\* to: <<>> if there is none, else <<[chunk, source, capacity]>>
FirstEligible(ps, order, shuffled, seeds, peer_index) ==
    LET n == Len(shuffled)
        sources == SourcePositions(n, seeds)
        source(si) == At(shuffled, sources[si])
        eligible == {x \in (1..Len(order)) \X (1..n) :
                        /\ ~ps[peer_index].possessed_chunks[order[x[1]]]
                        /\ desired_download_capacity(
                               ps, order[x[1]], source(x[2]), peer_index) # 0}
    IN  IF eligible = {} THEN <<>>
        ELSE LET x == CHOOSE y \in eligible : \A z \in eligible :
                          \/ y[1] < z[1]
                          \/ (y[1] = z[1] /\ y[2] <= z[2])
             IN  <<[chunk_number |-> order[x[1]],
                    source_peer  |-> source(x[2]),
                    capacity     |-> desired_download_capacity(
                                         ps, order[x[1]], source(x[2]), peer_index)]>>

\* ------------------------------------------------------------------------
\* Inputs
\* ------------------------------------------------------------------------
\* <<speed_fast, speed_medium, speed_slow>> of the simulated runs
SpeedTiers ==
    {<<1, 1, 1>>, <<2, 1, 1>>, <<2, 2, 2>>, <<3, 2, 2>>, <<4, 2, 2>>, <<4, 2, 1>>}

\* Lines of a peer configuration file
ConfigStrings ==
    {<<>>, <<"s">>, <<"f">>, <<"a", "r", "s">>, <<"s", "u", "m">>, <<"f", "m", "s">>}

SeqsUpTo(S, n) == UNION {[1..k -> S] : k \in 0..n}

CountsArgs(chunkCounts, peerCounts, seedCounts, tiers) ==
    {[mode |-> "from_counts", number_chunks |-> c, number_peers |-> p,
      number_seeds |-> sd, speed_fast |-> t[1], speed_medium |-> t[2],
      speed_slow |-> t[3], number_selfish |-> ns, number_freeriders |-> nf,
      strategy |-> st] :
        c \in chunkCounts, p \in peerCounts, sd \in seedCounts, t \in tiers,
        ns \in 0..(MaxPeers - 1), nf \in 0..(MaxPeers - 1), st \in Strategy}

PeerConfigArgs(chunkCounts, peerCounts, seedCounts, tiers, strings) ==
    {[mode |-> "from_peer_config", number_chunks |-> c, number_peers |-> p,
      number_seeds |-> sd, speed_fast |-> t[1], speed_medium |-> t[2],
      speed_slow |-> t[3],
      peer_config |-> [i \in DOMAIN l |-> PeerConfigFromString(l[i])]] :
        c \in chunkCounts, p \in peerCounts, sd \in seedCounts, t \in tiers,
        l \in SeqsUpTo(strings, MaxPeers - 1)}

RunCountsArgs == CountsArgs(1..MaxChunks, 2..MaxPeers, 1..(MaxPeers - 1), SpeedTiers)

RunPeerConfigArgs ==
    PeerConfigArgs(1..MaxChunks, 2..MaxPeers, 1..(MaxPeers - 1), SpeedTiers,
                   ConfigStrings)

\* Parameters of every kind the constructors may be called with, the
\* malformed ones and the speeds around the limit of 1000 included
WideSpeeds == {0, 1, 2, 2 * MaxNormalizedSpeed, 2 * MaxNormalizedSpeed + 2}

WideTiers == WideSpeeds \X WideSpeeds \X WideSpeeds

WideCountsArgs == CountsArgs(0..MaxChunks, 0..MaxPeers, 0..MaxPeers, WideTiers)

WidePeerConfigArgs ==
    PeerConfigArgs(0..MaxChunks, 0..MaxPeers, 0..MaxPeers, WideTiers,
                   {<<"s">>, <<"f", "m", "s">>})

\* ------------------------------------------------------------------------
\* Initial state: nothing is constructed
\* ------------------------------------------------------------------------
Init ==
    /\ pc = "new"
    /\ args = [mode |-> "none"]
    /\ config = NoConfig
    /\ file = [chunks |-> <<>>]
    /\ peers = <<>>
    /\ number_seeds = 0
    /\ chunk_size = 0
    /\ rounds = <<>>
    /\ current_round = [completed_peers |-> 0, completed_chunks |-> 0,
                        exchanged_chunks |-> 0]
    /\ shuffled_peers = <<>>
    /\ temporary_chunks = <<>>
    /\ exchanged_chunks = 0
    /\ completed_peers = 0
    /\ completed_chunks = 0
    /\ finished_uploads = <<>>
    /\ position = 0
    /\ events = <<>>
    /\ iterations = 0
    /\ round_start_peers = <<>>

\* ------------------------------------------------------------------------
\* Config constructors
\* ------------------------------------------------------------------------
FromCounts(a) ==
    /\ pc = "new"
    /\ args' = a
    /\ IF FromCountsAccepts(a)
       THEN pc' = "config" /\ config' = from_counts(a)
       ELSE pc' = "rejected" /\ config' = config
    /\ UNCHANGED <<distVars, runVars>>

FromPeerConfig(a) ==
    /\ pc = "new"
    /\ args' = a
    /\ IF FromPeerConfigAccepts(a)
       THEN pc' = "config" /\ config' = from_peer_config(a)
       ELSE pc' = "rejected" /\ config' = config
    /\ UNCHANGED <<distVars, runVars>>

\* ------------------------------------------------------------------------
\* Distribution::new
\* ------------------------------------------------------------------------
DistributionPeers(c) ==
    [i \in 0..(c.number_peers - 1) |->
        PeerNew(i, c.number_chunks, i < c.number_seeds,
                At(c.peer_selfishness, i), At(c.peer_strategies, i),
                At(c.peer_speeds, i))]

DistributionNew ==
    /\ pc = "config"
    /\ IF PeerNewAccepts(config)
       THEN /\ pc' = "dist"
            /\ file' = [chunks |-> [i \in 1..config.number_chunks |->
                                       ChunkNew(i - 1, config.number_seeds)]]
            /\ peers' = DistributionPeers(config)
            /\ number_seeds' = config.number_seeds
            /\ chunk_size' = config.chunk_size
       ELSE /\ pc' = "panic"
            /\ UNCHANGED distVars
    /\ UNCHANGED <<configVars, runVars>>

\* ------------------------------------------------------------------------
\* Distribution::run
\* ------------------------------------------------------------------------
\* mutant: the first snapshot counts the initial transfers of the seeds
InitialRoundExchanging(seeds) ==
    [completed_peers |-> seeds, completed_chunks |-> 0, exchanged_chunks |-> seeds]

InitialRound(seeds) ==
    [completed_peers |-> seeds, completed_chunks |-> 0, exchanged_chunks |-> 0]

\* run up to the round loop
RunBegin ==
    /\ pc = "dist"
    /\ pc' = "loop"
    /\ current_round' = InitialRound(number_seeds)
    /\ rounds' = <<InitialRound(number_seeds)>>
    /\ shuffled_peers' = [i \in 1..Cardinality(PeerIds) |-> i - 1]
    /\ temporary_chunks' = [i \in 1..Len(file.chunks) |-> i - 1]
    /\ events' = <<<<"random_seed">>, <<"chunk_size", chunk_size>>>>
    /\ UNCHANGED <<configVars, distVars, exchanged_chunks, completed_peers,
                   completed_chunks, finished_uploads, position, iterations,
                   round_start_peers>>

LoopCondition == current_round.completed_peers < Cardinality(PeerIds)

\* the loop is left and rounds is returned
RunReturn ==
    /\ pc = "loop"
    /\ ~LoopCondition
    /\ pc' = "done"
    /\ UNCHANGED <<configVars, distVars, runVars>>

\* a round begins: the counters, the two shuffles and the sort
RoundStart ==
    /\ pc = "loop"
    /\ LoopCondition
    /\ iterations < MaxRounds
    /\ pc' = "schedule"
    /\ iterations' = iterations + 1
    /\ round_start_peers' = peers
    /\ exchanged_chunks' = 0
    /\ completed_peers' = 0
    /\ completed_chunks' = 0
    /\ shuffled_peers' \in ShuffledPeers(shuffled_peers, number_seeds)
    /\ temporary_chunks' = SortByPossession(temporary_chunks, file)
    /\ position' = number_seeds
    /\ events' = Append(events, <<"round_start", Len(rounds)>>)
    /\ UNCHANGED <<configVars, distVars, rounds, current_round, finished_uploads>>

Scheduling == pc = "schedule" /\ position < Len(shuffled_peers)

ScheduledPeer == At(shuffled_peers, position)

\* the peer has a completion round: continue
SkipCompletedPeer ==
    /\ Scheduling
    /\ peers[ScheduledPeer].completion_round # NONE
    /\ position' = position + 1
    /\ UNCHANGED <<pc, configVars, distVars, rounds, current_round, shuffled_peers,
                   temporary_chunks, exchanged_chunks, completed_peers,
                   completed_chunks, finished_uploads, events, iterations,
                   round_start_peers>>

\* mutant: a download that has the whole chunk is completed on the spot
WithDownloadCompleted(self, download) ==
    IF download.downloaded_size >= chunk_size
    THEN [self EXCEPT !.possessed_chunks[download.chunk_number] = TRUE,
                      !.current_download = <<>>]
    ELSE [self EXCEPT !.current_download = <<download>>]

\* self.peers[*peer_index].current_download = Some(download)
WithDownload(self, download) == [self EXCEPT !.current_download = <<download>>]

\* mutant: the remaining size does not limit the amount
DesiredSizeUncapped(ps, download, size) ==
    desired_download_capacity(ps, download.chunk_number,
                              download.source_peer, download.target_peer)

\* desired_size of the download the scheduled peer continues
DesiredSize(ps, download, size) ==
    LET desired_capacity ==
            desired_download_capacity(ps, download.chunk_number,
                                      download.source_peer, download.target_peer)
        remaining_size == size - download.downloaded_size
    IN  Min(desired_capacity, remaining_size)

\* the download with this round's amount added
Continued(download, desired_size) ==
    [download EXCEPT !.current_size = desired_size,
                     !.downloaded_size = @ + desired_size]

\* observer.chunk_transfer(chunk_number, transfer_size, source_peer, target_peer)
ChunkTransfer(download, transfer_size) ==
    <<"chunk_transfer", download.chunk_number, transfer_size,
      download.source_peer, download.target_peer>>

\* the peer has a download: it goes on with it
ContinueDownload ==
    /\ Scheduling
    /\ peers[ScheduledPeer].completion_round = NONE
    /\ peers[ScheduledPeer].current_download # <<>>
    /\ LET peer_index == ScheduledPeer
           old == peers[peer_index].current_download[1]
           desired_size == DesiredSize(peers, old, chunk_size)
           download == Continued(old, desired_size)
           withTarget == [peers EXCEPT ![peer_index] = WithDownload(@, download)]
       IN  /\ desired_size > 0
           /\ events' = Append(events, ChunkTransfer(download, desired_size))
           /\ peers' = [withTarget EXCEPT ![download.source_peer] =
                            PeerDownload(@, download)]
    /\ position' = position + 1
    /\ UNCHANGED <<pc, configVars, file, number_seeds, chunk_size, rounds,
                   current_round, shuffled_peers, temporary_chunks,
                   exchanged_chunks, completed_peers, completed_chunks,
                   finished_uploads, iterations, round_start_peers>>

\* assert!(desired_size > 0) fails: the run panics
AssertDesiredSizeFails ==
    /\ Scheduling
    /\ peers[ScheduledPeer].completion_round = NONE
    /\ peers[ScheduledPeer].current_download # <<>>
    /\ ~(DesiredSize(peers, peers[ScheduledPeer].current_download[1], chunk_size) > 0)
    /\ pc' = "panic"
    /\ UNCHANGED <<configVars, distVars, runVars>>

NewDownload(found, peer_index) ==
    [chunk_number    |-> found.chunk_number,
     source_peer     |-> found.source_peer,
     target_peer     |-> peer_index,
     downloaded_size |-> found.capacity,
     current_size    |-> found.capacity]

\* the peer has no download: the ties of temporary_chunks are shuffled and
\* the peer starts the first download it finds, if any
StartDownload ==
    /\ Scheduling
    /\ peers[ScheduledPeer].completion_round = NONE
    /\ peers[ScheduledPeer].current_download = <<>>
    /\ \E randomized \in randomize_chunks(temporary_chunks, file) :
       \E peer_chunks \in PeerChunks(peers[ScheduledPeer].strategy, randomized) :
          LET peer_index == ScheduledPeer
              found == FirstEligible(peers, peer_chunks, shuffled_peers,
                                     number_seeds, peer_index)
          IN  /\ temporary_chunks' = randomized
              /\ IF found = <<>>
                 THEN UNCHANGED <<peers, exchanged_chunks, events>>
                 ELSE LET download == NewDownload(found[1], peer_index)
                          withTarget == [peers EXCEPT
                              ![peer_index] = WithDownload(@, download)]
                      IN  /\ exchanged_chunks' = exchanged_chunks + 1
                          /\ events' = Append(events,
                                 ChunkTransfer(download, download.current_size))
                          /\ peers' = [withTarget EXCEPT ![download.source_peer] =
                                           PeerDownload(@, download)]
    /\ position' = position + 1
    /\ UNCHANGED <<pc, configVars, file, number_seeds, chunk_size, rounds,
                   current_round, shuffled_peers, completed_peers,
                   completed_chunks, finished_uploads, iterations,
                   round_start_peers>>

\* mutant: the possession count is not incremented
ChunkGainedCountKept(chunk, number_peers, round_number) ==
    [chunk EXCEPT !.completion_round =
        IF chunk.number_possessing_peers + 1 = number_peers THEN round_number ELSE @]

\* The chunk after one more peer got it in the given round
ChunkGained(chunk, number_peers, round_number) ==
    LET count == chunk.number_possessing_peers + 1
    IN  [chunk EXCEPT !.number_possessing_peers = count,
                      !.completion_round =
                          IF count = number_peers THEN round_number ELSE @]

\* mutant: the completion is recorded with any finished download
PeerSweptAnyChunk(self, size, round_number) ==
    LET after == check_chunk_download_finished(self, size)
    IN  IF DownloadFinished(self, size)
        THEN [after EXCEPT !.completion_round = round_number]
        ELSE after

\* The peer after its download check, with its completion recorded
PeerSwept(self, size, round_number) ==
    LET after == check_chunk_download_finished(self, size)
    IN  IF DownloadFinished(self, size)
           /\ \A c \in DOMAIN after.possessed_chunks : after.possessed_chunks[c]
        THEN [after EXCEPT !.completion_round = round_number]
        ELSE after

\* mutant: peer_completed is called for every finished download
SweptEventsEveryDownload(chunk, swept, number_peers) ==
    (IF chunk.number_possessing_peers = number_peers
     THEN <<<<"chunk_completed", chunk.index>>>> ELSE <<>>)
    \o <<<<"peer_completed", swept.index>>>>

\* The observer calls of the sweep for one finished download:
\* chunk_completed, then peer_completed
SweptEvents(chunk, swept, number_peers) ==
    (IF chunk.number_possessing_peers = number_peers
     THEN <<<<"chunk_completed", chunk.index>>>> ELSE <<>>)
    \o (IF swept.completion_round # NONE
        THEN <<<<"peer_completed", swept.index>>>> ELSE <<>>)

\* The body of `for peer in &mut self.peers` for the peers i, i+1, ...
RECURSIVE SweepPeers(_, _, _, _)
SweepPeers(i, acc, size, round_number) ==
    IF i \notin DOMAIN acc.peers THEN acc
    ELSE LET peer == acc.peers[i]
             number_peers == Cardinality(DOMAIN acc.peers)
         IN  IF ~DownloadFinished(peer, size)
             THEN SweepPeers(i + 1, acc, size, round_number)
             ELSE LET download == peer.current_download[1]
                      swept == PeerSwept(peer, size, round_number)
                      chunk == ChunkGained(At(acc.chunks, download.chunk_number),
                                           number_peers, round_number)
                  IN  SweepPeers(i + 1,
                        [peers |-> [acc.peers EXCEPT ![i] = swept],
                         chunks |-> [acc.chunks EXCEPT
                                        ![download.chunk_number + 1] = chunk],
                         completed_chunks |-> acc.completed_chunks +
                             (IF chunk.number_possessing_peers = number_peers
                              THEN 1 ELSE 0),
                         completed_peers |-> acc.completed_peers +
                             (IF swept.completion_round # NONE THEN 1 ELSE 0),
                         finished_uploads |-> Append(acc.finished_uploads, download),
                         events |-> acc.events
                             \o SweptEvents(chunk, swept, number_peers)],
                        size, round_number)

\* the completion sweep over all peers
Sweep ==
    /\ pc = "schedule"
    /\ position = Len(shuffled_peers)
    /\ LET acc == SweepPeers(0,
                     [peers |-> peers, chunks |-> file.chunks,
                      completed_chunks |-> completed_chunks,
                      completed_peers |-> completed_peers,
                      finished_uploads |-> <<>>, events |-> events],
                     chunk_size, Len(rounds))
       IN  /\ peers' = acc.peers
           /\ file' = [file EXCEPT !.chunks = acc.chunks]
           /\ completed_chunks' = acc.completed_chunks
           /\ completed_peers' = acc.completed_peers
           /\ finished_uploads' = acc.finished_uploads
           /\ events' = acc.events
    /\ pc' = "uploads"
    /\ UNCHANGED <<configVars, number_seeds, chunk_size, rounds, current_round,
                   shuffled_peers, temporary_chunks, exchanged_chunks, position,
                   iterations, round_start_peers>>

\* `for upload in finished_uploads`: the sources' bookkeeping
RECURSIVE UploadsFinished(_, _)
UploadsFinished(ps, uploads) ==
    IF uploads = <<>> THEN ps
    ELSE LET upload == Head(uploads)
         IN  UploadsFinished(
                 [ps EXCEPT ![upload.source_peer] =
                     chunk_upload_finished(@, upload.chunk_number, upload.target_peer)],
                 Tail(uploads))

FinishUploads ==
    /\ pc = "uploads"
    /\ peers' = UploadsFinished(peers, finished_uploads)
    /\ finished_uploads' = <<>>
    /\ pc' = "stats"
    /\ UNCHANGED <<configVars, file, number_seeds, chunk_size, rounds,
                   current_round, shuffled_peers, temporary_chunks,
                   exchanged_chunks, completed_peers, completed_chunks, position,
                   events, iterations, round_start_peers>>

\* mutant: the round's completed chunks are stored as its exchanged chunks
RoundSnapshotMixedUp(previous, donePeers, doneChunks, exchanged) ==
    [completed_peers  |-> previous.completed_peers + donePeers,
     completed_chunks |-> previous.completed_chunks + doneChunks,
     exchanged_chunks |-> doneChunks]

\* The Round pushed at the end of a round
RoundSnapshot(previous, donePeers, doneChunks, exchanged) ==
    [completed_peers  |-> previous.completed_peers + donePeers,
     completed_chunks |-> previous.completed_chunks + doneChunks,
     exchanged_chunks |-> exchanged]

\* the statistics of the round; the loop condition is tested next
RoundEnd ==
    /\ pc = "stats"
    /\ LET snapshot == RoundSnapshot(current_round, completed_peers,
                                     completed_chunks, exchanged_chunks)
       IN  /\ rounds' = Append(rounds, snapshot)
           /\ current_round' = RoundNew(snapshot)
           /\ events' = Append(events, <<"round_end", Len(rounds), snapshot>>)
    /\ pc' = "loop"
    /\ UNCHANGED <<configVars, distVars, shuffled_peers, temporary_chunks,
                   exchanged_chunks, completed_peers, completed_chunks,
                   finished_uploads, position, iterations, round_start_peers>>

\* ------------------------------------------------------------------------
\* Specifications
\* ------------------------------------------------------------------------
Run ==
    \/ DistributionNew
    \/ RunBegin
    \/ RoundStart
    \/ SkipCompletedPeer
    \/ ContinueDownload
    \/ AssertDesiredSizeFails
    \/ StartDownload
    \/ Sweep
    \/ FinishUploads
    \/ RoundEnd
    \/ RunReturn

Next ==
    \/ pc = "new" /\ \E a \in RunCountsArgs : FromCounts(a)
    \/ pc = "new" /\ \E a \in RunPeerConfigArgs : FromPeerConfig(a)
    \/ Run

Spec == Init /\ [][Next]_vars

\* The Config constructors alone, called with parameters of every kind
NextConfig ==
    \/ pc = "new" /\ \E a \in WideCountsArgs : FromCounts(a)
    \/ pc = "new" /\ \E a \in WidePeerConfigArgs : FromPeerConfig(a)

SpecConfig == Init /\ [][NextConfig]_vars

\* ------------------------------------------------------------------------
\* Vocabulary of the properties
\* ------------------------------------------------------------------------
DistributionBuilt == pc \in {"dist", "loop", "schedule", "uploads", "stats", "done", "panic"}

InRound == pc \in {"schedule", "uploads", "stats"}

Complete(p) == peers[p].completion_round # NONE

AllPeersComplete == \A p \in PeerIds : Complete(p)

Possessors(c) == {p \in PeerIds : peers[p].possessed_chunks[c]}

MinPeerSpeed ==
    CHOOSE m \in {peers[p].speed : p \in PeerIds} :
        \A q \in PeerIds : m <= peers[q].speed

TotalBytes == (Cardinality(PeerIds) - number_seeds) * Len(file.chunks) * chunk_size

\* total bytes to deliver divided by the minimum peer speed; where that speed
\* is 0 the bound of speed 1 is taken, the largest a positive speed gives
RoundBound == TotalBytes \div (IF MinPeerSpeed = 0 THEN 1 ELSE MinPeerSpeed)

SpeedGcd == gcd(gcd(args.speed_slow, args.speed_medium), args.speed_fast)

\* ------------------------------------------------------------------------
\* Properties
\* ------------------------------------------------------------------------

\* C1: on every accepted configuration the run terminates with every peer
\* complete: it never stops (returns or aborts) while a peer lacks a
\* completion_round, and it never begins more rounds than the total bytes
\* to deliver divided by the minimum peer speed.
C1_RunTerminatesWithinBound ==
    DistributionBuilt =>
        /\ iterations <= RoundBound
        /\ (pc \in {"done", "panic"} => AllPeersComplete)

\* C2: whenever an incomplete peer with an active download is scheduled,
\* the amount delivered to it in this round is strictly positive, so
\* assert!(desired_size > 0) never fails.
C2_DeliveredAmountPositive ==
    (/\ Scheduling
     /\ ~Complete(ScheduledPeer)
     /\ peers[ScheduledPeer].current_download # <<>>)
        => DesiredSize(peers, peers[ScheduledPeer].current_download[1], chunk_size) > 0

\* C3 as stated: once the completion_round of a Selfish peer is recorded,
\* no step of the run increases its number_uploads.
C3_SelfishUploadsFrozenOnceRecorded ==
    [][\A p \in (DOMAIN peers) \cap (DOMAIN peers') :
          (peers[p].selfishness = "Selfish" /\ peers[p].completion_round # NONE)
              => peers'[p].number_uploads = peers[p].number_uploads]_vars

\* C3 as amended: the number_uploads of a Selfish peer never increases after
\* the end of the round in which the peer completed (the source bookkeeping
\* of that very round still counts the uploads that finished in it).
C3_SelfishUploadsFrozenAfterCompletionRound ==
    [][\A p \in (DOMAIN peers) \cap (DOMAIN peers') :
          (/\ peers[p].selfishness = "Selfish"
           /\ peers[p].completion_round # NONE
           /\ peers[p].completion_round < Len(rounds))
              => peers'[p].number_uploads = peers[p].number_uploads]_vars

\* a Selfish peer that uploaded and completed in an earlier round, in a
\* later round of a run that still has an incomplete peer to serve
C3_Witness ==
    /\ pc = "uploads"
    /\ \E p \in PeerIds :
          /\ peers[p].selfishness = "Selfish"
          /\ peers[p].completion_round # NONE
          /\ peers[p].completion_round < Len(rounds)
          /\ peers[p].number_uploads > 0
    /\ \E q \in PeerIds : round_start_peers[q].completion_round = NONE

\* C4: a Freerider never uploads: its number_uploads is 0, it holds no
\* upload record and no download names it as source_peer.
C4_FreeriderNeverUploads ==
    \A p \in PeerIds :
        peers[p].selfishness = "Freerider" =>
            /\ peers[p].number_uploads = 0
            /\ peers[p].current_uploads = <<>>
            /\ \A q \in PeerIds :
                  peers[q].current_download # <<>>
                      => peers[q].current_download[1].source_peer # p

\* a peer has started, in this round, the download of a chunk that a
\* Freerider, earlier than the seeds in the order of sources, possessed
C4_Witness ==
    /\ InRound
    /\ \E p \in PeerIds, q \in PeerIds :
          /\ peers[p].selfishness = "Freerider"
          /\ round_start_peers[q].current_download = <<>>
          /\ peers[q].current_download # <<>>
          /\ round_start_peers[p].possessed_chunks[
                 peers[q].current_download[1].chunk_number]

\* C5: for every chunk number_possessing_peers is the number of peers whose
\* possession bit for it is set; the count never decreases and no
\* possession bit goes from true to false.
C5_PossessionCountExactAndMonotone ==
    /\ [](\A c \in DOMAIN file.chunks :
             file.chunks[c].number_possessing_peers = Cardinality(Possessors(c - 1)))
    /\ [][/\ \A c \in (DOMAIN file.chunks) \cap (DOMAIN file'.chunks) :
                file'.chunks[c].number_possessing_peers
                    >= file.chunks[c].number_possessing_peers
          /\ \A p \in (DOMAIN peers) \cap (DOMAIN peers') :
                \A c \in DOMAIN peers[p].possessed_chunks :
                    peers[p].possessed_chunks[c] => peers'[p].possessed_chunks[c]]_vars

\* a sweep has just given a chunk to a peer that still lacks another chunk
C5_Witness ==
    /\ pc = "uploads"
    /\ \E p \in PeerIds : \E c \in DOMAIN peers[p].possessed_chunks :
          /\ peers[p].possessed_chunks[c]
          /\ ~round_start_peers[p].possessed_chunks[c]
          /\ \E d \in DOMAIN peers[p].possessed_chunks : ~peers[p].possessed_chunks[d]

\* The peers that started a download in the round that began last: they had
\* none when it began, and now have one or have gained a chunk
NewTransfers ==
    {p \in PeerIds :
        /\ round_start_peers[p].current_download = <<>>
        /\ \/ peers[p].current_download # <<>>
           \/ peers[p].possessed_chunks # round_start_peers[p].possessed_chunks}

\* The upload records, over all sources, that name the target
InboundRecords(t) ==
    {x \in PeerIds \X (1..MaxPeers) :
        /\ x[2] <= Len(peers[x[1]].current_uploads)
        /\ peers[x[1]].current_uploads[x[2]].target_peer = t}

\* C6: the exchanged_chunks of a round's snapshot is the number of downloads
\* started in that round, one at most per peer and continuations not
\* counted; at a round boundary no peer has more than one inbound transfer.
C6_ExchangedChunksCountsNewTransfers ==
    /\ (InRound => exchanged_chunks = Cardinality(NewTransfers))
    /\ (pc = "loop" /\ iterations > 0) =>
          /\ rounds[Len(rounds)].exchanged_chunks = Cardinality(NewTransfers)
          /\ \A t \in PeerIds :
                /\ Cardinality(InboundRecords(t)) <= 1
                /\ Cardinality(InboundRecords(t)) = Len(peers[t].current_download)

\* a round has ended in which one peer started a download and another went
\* on with the download it had
C6_Witness ==
    /\ pc = "loop"
    /\ iterations > 0
    /\ rounds[Len(rounds)].exchanged_chunks > 0
    /\ \E p \in PeerIds :
          /\ round_start_peers[p].current_download # <<>>
          /\ peers[p].current_download # <<>>

\* C7: the returned sequence has one entry more than rounds were executed,
\* and its first entry is the snapshot before the simulation: the seeds
\* complete, no chunk complete, no chunk exchanged.
C7_RoundsLengthAndFirstSnapshot ==
    pc \in {"loop", "done"} =>
        /\ Len(rounds) = iterations + 1
        /\ rounds[1] = [completed_peers |-> number_seeds, completed_chunks |-> 0,
                        exchanged_chunks |-> 0]

\* a run has returned after several rounds
C7_Witness == pc = "done" /\ iterations >= 3

\* C8: every snapshot holds the number of peers and of chunks whose
\* completion_round was recorded by its round; both never decrease along the
\* sequence, and the last snapshot of a run that returned holds the number
\* of peers and the number of chunks.
C8_SnapshotsCountCompletions ==
    pc \in {"loop", "done"} =>
        /\ \A k \in 1..Len(rounds) :
              /\ rounds[k].completed_peers =
                     Cardinality({p \in PeerIds :
                                      /\ Complete(p)
                                      /\ peers[p].completion_round <= k - 1})
              /\ rounds[k].completed_chunks =
                     Cardinality({c \in DOMAIN file.chunks :
                                      /\ file.chunks[c].completion_round # NONE
                                      /\ file.chunks[c].completion_round <= k - 1})
        /\ \A k \in 1..(Len(rounds) - 1) :
              /\ rounds[k].completed_peers <= rounds[k + 1].completed_peers
              /\ rounds[k].completed_chunks <= rounds[k + 1].completed_chunks
        /\ pc = "done" =>
              /\ rounds[Len(rounds)].completed_peers = Cardinality(PeerIds)
              /\ rounds[Len(rounds)].completed_chunks = Len(file.chunks)

\* a run has returned whose chunks completed in different rounds
C8_Witness ==
    /\ pc = "done"
    /\ \E c \in DOMAIN file.chunks, d \in DOMAIN file.chunks :
          file.chunks[c].completion_round < file.chunks[d].completion_round
    /\ \E k \in 1..(Len(rounds) - 1) :
          /\ rounds[k].completed_chunks > 0
          /\ rounds[k].completed_chunks < rounds[k + 1].completed_chunks

\* C9: in uniform mode every peer's speed is speed_fast divided by the
\* greatest common divisor of the three tiers, a positive integer.
C9_UniformSpeedIsNormalizedFast ==
    (pc = "config" /\ args.mode = "from_counts") =>
        \A i \in 1..Len(config.peer_speeds) :
            /\ config.peer_speeds[i] * SpeedGcd = args.speed_fast
            /\ config.peer_speeds[i] > 0

\* The layout C10 describes, the peers no descriptor names having the speed
\* of the given tier
ExplicitLayout(trailing_speed) ==
    LET k == Len(args.peer_config)
        S == args.number_seeds
    IN  /\ Len(config.peer_selfishness) = args.number_peers
        /\ Len(config.peer_strategies) = args.number_peers
        /\ Len(config.peer_speeds) = args.number_peers
        /\ \A i \in 0..(args.number_peers - 1) :
              IF i < S
              THEN /\ At(config.peer_selfishness, i) = "Altruistic"
                   /\ At(config.peer_strategies, i) = "RarestFirst"
                   /\ At(config.peer_speeds, i) * SpeedGcd = args.speed_fast
              ELSE IF i < S + k
              THEN LET d == At(args.peer_config, i - S)
                   IN  /\ At(config.peer_selfishness, i) = d.selfishness
                       /\ At(config.peer_strategies, i) = d.strategy
                       /\ At(config.peer_speeds, i) * SpeedGcd =
                              (CASE d.speed = "Fast"   -> args.speed_fast
                                 [] d.speed = "Medium" -> args.speed_medium
                                 [] d.speed = "Slow"   -> args.speed_slow)
              ELSE /\ At(config.peer_selfishness, i) = "Altruistic"
                   /\ At(config.peer_strategies, i) = "RarestFirst"
                   /\ At(config.peer_speeds, i) * SpeedGcd = trailing_speed

\* C10 as stated: the peers no descriptor names get the slow tier's speed.
C10_TrailingPeersSlow ==
    (pc = "config" /\ args.mode = "from_peer_config")
        => ExplicitLayout(args.speed_slow)

\* C10 as amended: the peers no descriptor names get the fast tier's speed,
\* the tier Speed::default() names.
C10_TrailingPeersFast ==
    (pc = "config" /\ args.mode = "from_peer_config")
        => ExplicitLayout(args.speed_fast)

\* an explicit configuration of three distinct tiers with a descriptor of
\* the medium tier and a peer no descriptor names
C10_Witness ==
    /\ pc = "config"
    /\ args.mode = "from_peer_config"
    /\ args.speed_fast > args.speed_medium
    /\ args.speed_medium > args.speed_slow
    /\ Len(args.peer_config) > 0
    /\ args.number_seeds + Len(args.peer_config) < args.number_peers
    /\ \E i \in DOMAIN args.peer_config :
          /\ args.peer_config[i].speed = "Medium"
          /\ args.peer_config[i].selfishness # "Altruistic"
          /\ args.peer_config[i].strategy # "RarestFirst"

\* ------------------------------------------------------------------------
\* Vocabulary of the observer's events
\* ------------------------------------------------------------------------
EventIds == DOMAIN events

IsEvent(i, kind) == events[i][1] = kind

\* The round an event belongs to: the number of round_start events up to it
RoundOfEvent(i) == Cardinality({j \in 1..i : IsEvent(j, "round_start")})

\* The chunk_transfer events of the transfer of chunk c to peer t
TransferEvents(t, c) ==
    {i \in EventIds : IsEvent(i, "chunk_transfer") /\ events[i][2] = c /\ events[i][5] = t}

FirstEvent(t, c) == CHOOSE i \in TransferEvents(t, c) : \A j \in TransferEvents(t, c) : i <= j

TransferSource(t, c) == events[FirstEvent(t, c)][4]

\* From the round the transfer of c to t started on, its source had no
\* chunk_transfer to any other target, and it holds no upload to another one
Uncontended(t, c) ==
    /\ \A j \in EventIds :
          (/\ IsEvent(j, "chunk_transfer")
           /\ events[j][4] = TransferSource(t, c)
           /\ RoundOfEvent(j) >= RoundOfEvent(FirstEvent(t, c)))
          => events[j][5] = t
    /\ LET uploads == peers[TransferSource(t, c)].current_uploads
       IN  \A k \in DOMAIN uploads : uploads[k].target_peer = t

\* The transfers that have begun, as <<target, chunk>>
Transfers ==
    {x \in PeerIds \X (0..(Len(file.chunks) - 1)) : TransferEvents(x[1], x[2]) # {}}

\* ------------------------------------------------------------------------
\* C11: the chunk size is the least common multiple of the three normalized
\* speed tiers, and a transfer whose source serves no other target from its
\* first round on gets min(source speed, target speed) in each of
\* chunk_size / min(source speed, target speed) consecutive rounds and is
\* then complete: it is never left pending by a run that has stopped.
\* ------------------------------------------------------------------------
C11_UncontendedTransferDuration ==
    DistributionBuilt =>
        /\ LET g == gcd(gcd(args.speed_fast, args.speed_medium), args.speed_slow)
           IN  chunk_size = lcm(lcm(args.speed_fast \div g, args.speed_medium \div g),
                                args.speed_slow \div g)
        /\ \A x \in Transfers :
              LET t == x[1]
                  c == x[2]
                  m == Min(peers[TransferSource(t, c)].speed, peers[t].speed)
                  n == Cardinality(TransferEvents(t, c))
                  start == RoundOfEvent(FirstEvent(t, c))
              IN  Uncontended(t, c) =>
                     /\ m > 0
                     /\ (chunk_size \div m) * m = chunk_size
                     /\ n <= chunk_size \div m
                     /\ \A i \in TransferEvents(t, c) :
                           /\ events[i][3] = m
                           /\ RoundOfEvent(i) < start + n
                     /\ peers[t].possessed_chunks[c] => n = chunk_size \div m
                     /\ ~peers[t].possessed_chunks[c] =>
                           /\ pc # "panic"
                           /\ peers[t].current_download # <<>>
                           /\ peers[t].current_download[1].chunk_number = c
                           /\ peers[t].current_download[1].downloaded_size = n * m

\* ------------------------------------------------------------------------
\* C13: the observer gets random_seed and then chunk_size, once each, before
\* any event of a round; then, for n = 1, 2, ... in turn, round_start(n), the
\* chunk_transfer events of round n, its chunk_completed and peer_completed
\* events, and round_end(n) with the snapshot stored as rounds[n]; no event
\* of a later round comes before round_end(n). peer_completed(p) is never
\* emitted for a seed and exactly once for a non-seed peer p that completes,
\* in the round that is its completion_round; when the run returns, every
\* non-seed peer has had it.
\* ------------------------------------------------------------------------
\* The events from the i-th on continue a well-ordered log that is in the
\* given phase of round n
RECURSIVE WellOrdered(_, _, _)
WellOrdered(i, phase, n) ==
    IF i > Len(events) THEN TRUE
    ELSE LET e == events[i]
         IN  CASE phase = "seed" ->
                     e = <<"random_seed">> /\ WellOrdered(i + 1, "size", n)
               [] phase = "size" ->
                     e = <<"chunk_size", chunk_size>> /\ WellOrdered(i + 1, "between", n)
               [] phase = "between" ->
                     e = <<"round_start", n + 1>> /\ WellOrdered(i + 1, "transfers", n + 1)
               [] phase = "transfers" /\ e[1] = "chunk_transfer" ->
                     WellOrdered(i + 1, "transfers", n)
               [] phase \in {"transfers", "completions"}
                     /\ e[1] \in {"chunk_completed", "peer_completed"} ->
                     WellOrdered(i + 1, "completions", n)
               [] phase \in {"transfers", "completions"} /\ e[1] = "round_end" ->
                     /\ e[2] = n
                     /\ n + 1 <= Len(rounds)
                     /\ e[3] = At(rounds, n)
                     /\ WellOrdered(i + 1, "between", n)
               [] OTHER -> FALSE

PeerCompletedEvents(p) ==
    {i \in EventIds : IsEvent(i, "peer_completed") /\ events[i][2] = p}

C13_ObserverEventOrder ==
    /\ WellOrdered(1, "seed", 0)
    /\ pc \in {"loop", "schedule", "uploads", "stats", "done", "panic"} => Len(events) >= 2
    /\ \A p \in PeerIds :
          /\ p < number_seeds => PeerCompletedEvents(p) = {}
          /\ p >= number_seeds =>
                /\ Cardinality(PeerCompletedEvents(p))
                       = (IF peers[p].completion_round # NONE THEN 1 ELSE 0)
                /\ \A i \in PeerCompletedEvents(p) :
                       RoundOfEvent(i) = peers[p].completion_round
                /\ pc = "done" => PeerCompletedEvents(p) # {}

\* A run has returned after more than one round, in which a chunk_transfer,
\* a chunk_completed and a peer_completed were observed
C13_Witness ==
    /\ pc = "done"
    /\ Len(rounds) > 2
    /\ \E i, j, k \in EventIds :
          /\ IsEvent(i, "chunk_transfer")
          /\ IsEvent(j, "chunk_completed")
          /\ IsEvent(k, "peer_completed")
          /\ i < j /\ j < k

\* ------------------------------------------------------------------------
\* C14: a Config constructor aborts exactly for the malformed parameters:
\* no chunks, no seeds, not more peers than seeds, a slow tier of 0, a
\* medium tier below the slow one, a fast tier below the medium one, a fast
\* tier above 1000 after the division by the gcd of the tiers, more seeds,
\* selfish peers and freeriders than peers (from_counts), more descriptors
\* than non-seed peers (from_peer_config). For all other parameters it
\* returns a Config whose three per-peer vectors have number_peers entries.
\* ------------------------------------------------------------------------
Malformed(a) ==
    \/ a.number_chunks = 0
    \/ a.number_seeds = 0
    \/ a.number_seeds >= a.number_peers
    \/ a.speed_slow = 0
    \/ a.speed_medium < a.speed_slow
    \/ a.speed_fast < a.speed_medium
    \/ a.speed_fast \div gcd(gcd(a.speed_fast, a.speed_medium), a.speed_slow)
           > MaxNormalizedSpeed
    \/ /\ a.mode = "from_counts"
       /\ a.number_seeds + a.number_selfish + a.number_freeriders > a.number_peers
    \/ /\ a.mode = "from_peer_config"
       /\ Len(a.peer_config) > a.number_peers - a.number_seeds

C14_ConstructorsRejectMalformed ==
    args.mode # "none" =>
        /\ (pc = "rejected") = Malformed(args)
        /\ ~Malformed(args) =>
              /\ config # NoConfig
              /\ Len(config.peer_selfishness) = args.number_peers
              /\ Len(config.peer_strategies) = args.number_peers
              /\ Len(config.peer_speeds) = args.number_peers

\* A Config was built from tiers (2000, 2, 2), whose fast tier is within
\* the limit only after the division by the gcd
C14_Witness ==
    /\ pc = "config"
    /\ args.speed_fast = 2 * MaxNormalizedSpeed
    /\ args.speed_slow = 2
    /\ Len(config.peer_speeds) = MaxPeers

\* ------------------------------------------------------------------------
\* C15: a peer has a completion_round exactly when all its possession bits
\* are set, a chunk exactly when its possession count is the number of
\* peers; a completion_round is set by the sweep, to the number of the
\* round of that sweep, and never changes afterwards; a peer with a
\* completion_round has no download, and outside the rest of the round of
\* its completion no peer holds an upload to it.
\* ------------------------------------------------------------------------
AllChunksPossessed(p) ==
    \A c \in DOMAIN peers[p].possessed_chunks : peers[p].possessed_chunks[c]

\* The peers that hold an upload to t
UploadsTo(t) ==
    {s \in PeerIds : \E k \in DOMAIN peers[s].current_uploads :
                        peers[s].current_uploads[k].target_peer = t}

C15_CompletionTerminalAndDue ==
    /\ [](/\ \A p \in PeerIds :
               /\ (peers[p].completion_round # NONE) = AllChunksPossessed(p)
               /\ peers[p].completion_round # NONE =>
                     /\ peers[p].current_download = <<>>
                     /\ pc # "uploads" => UploadsTo(p) = {}
          /\ \A c \in DOMAIN file.chunks :
               (file.chunks[c].completion_round # NONE)
                   = (file.chunks[c].number_possessing_peers = Cardinality(PeerIds)))
    /\ [][/\ \A p \in (DOMAIN peers) \cap (DOMAIN peers') :
                /\ peers[p].completion_round # NONE =>
                      peers'[p].completion_round = peers[p].completion_round
                /\ peers'[p].completion_round # peers[p].completion_round =>
                      /\ pc = "schedule" /\ pc' = "uploads"
                      /\ peers'[p].completion_round = Len(rounds)
          /\ \A c \in (DOMAIN file.chunks) \cap (DOMAIN file'.chunks) :
                /\ file.chunks[c].completion_round # NONE =>
                      file'.chunks[c].completion_round = file.chunks[c].completion_round
                /\ file'.chunks[c].completion_round # file.chunks[c].completion_round =>
                      /\ pc = "schedule" /\ pc' = "uploads"
                      /\ file'.chunks[c].completion_round = Len(rounds)]_vars

\* In a round after its completion, a peer that got its last chunk while
\* another chunk was not yet complete is passed over by the scheduling
C15_Witness ==
    /\ pc = "schedule"
    /\ position > number_seeds
    /\ \E p \in PeerIds :
          /\ p >= number_seeds
          /\ peers[p].completion_round # NONE
          /\ peers[p].completion_round < Len(rounds)
          /\ At(shuffled_peers, position - 1) = p
    /\ \E c \in DOMAIN file.chunks : file.chunks[c].completion_round = NONE

\* ------------------------------------------------------------------------
\* Vocabulary of the scheduling steps
\* ------------------------------------------------------------------------
\* The step schedules a peer that goes on with its download
ContinueStep ==
    /\ Scheduling
    /\ peers[ScheduledPeer].current_download # <<>>
    /\ pc' = "schedule"
    /\ position' = position + 1

\* The step schedules a peer that has no download and no completion round
SearchStep ==
    /\ Scheduling
    /\ peers[ScheduledPeer].completion_round = NONE
    /\ peers[ScheduledPeer].current_download = <<>>
    /\ position' = position + 1

\* The peer has had its turn in the scheduling of the round
ScheduledThisRound(q) == \E i \in 1..position : shuffled_peers[i] = q

\* The sum of the current_size of the uploads to other peers than t; with
\* thisRoundOnly, of those written in the round under way only
RECURSIVE Committed(_, _, _)
Committed(uploads, t, thisRoundOnly) ==
    IF uploads = <<>> THEN 0
    ELSE LET u == Head(uploads)
             counts == /\ u.target_peer # t
                       /\ thisRoundOnly => ScheduledThisRound(u.target_peer)
         IN  (IF counts THEN u.current_size ELSE 0)
                 + Committed(Tail(uploads), t, thisRoundOnly)

Residual(s, t, thisRoundOnly) ==
    LET used == Committed(peers[s].current_uploads, t, thisRoundOnly)
    IN  IF used > peers[s].speed THEN 0 ELSE peers[s].speed - used

\* The amount the step delivers to the scheduled peer is
\* min(remaining, target speed, residual capacity of the source)
ContinuedAmountIs(thisRoundOnly) ==
    LET t == ScheduledPeer
        d == peers[t].current_download[1]
    IN  /\ peers'[t].current_download # <<>>
        /\ peers'[t].current_download[1].current_size
               = Min(chunk_size - d.downloaded_size,
                     Min(peers[t].speed, Residual(d.source_peer, t, thisRoundOnly)))
        /\ peers'[t].current_download[1].downloaded_size
               = d.downloaded_size + peers'[t].current_download[1].current_size

\* ------------------------------------------------------------------------
\* C16 as stated: the amount a continued transfer delivers in round r is
\* min(remaining, target speed, residual capacity of the source), where the
\* residual capacity is the source speed minus the amounts the source has
\* committed to other targets in round r itself; what it delivered to other
\* targets in round r-1 and has not recomputed yet does not reduce it.
\* ------------------------------------------------------------------------
C16_ResidualCountsThisRoundOnly == [][ContinueStep => ContinuedAmountIs(TRUE)]_vars

\* C16 amended: the amount a continued transfer delivers in round r is
\* min(remaining, target speed, residual capacity of the source), where the
\* residual capacity is the source speed minus the current_size of all the
\* uploads the source holds for other targets: the amount of round r for
\* the targets already scheduled in round r, the amount of round r-1 for
\* those still to be scheduled.
C16_ResidualCountsAllUploads == [][ContinueStep => ContinuedAmountIs(FALSE)]_vars

\* The peer scheduled last went on with its download and got what the
\* source has left beside the amount another target, still to be scheduled,
\* got in the round before; the source alone would have let it have more
C16_Witness ==
    /\ pc = "schedule"
    /\ position > number_seeds
    /\ LET t == At(shuffled_peers, position - 1)
       IN  /\ peers[t].current_download # <<>>
           /\ LET d == peers[t].current_download[1]
                  s == d.source_peer
              IN  /\ d.downloaded_size > d.current_size
                  /\ d.current_size < peers[t].speed
                  /\ d.downloaded_size < chunk_size
                  /\ \E k \in DOMAIN peers[s].current_uploads :
                        LET u == peers[s].current_uploads[k]
                        IN  /\ u.target_peer # t
                            /\ ~ScheduledThisRound(u.target_peer)
                            /\ d.current_size = peers[s].speed - u.current_size

\* ------------------------------------------------------------------------
\* C17: an incomplete peer without a transfer, when scheduled, starts
\* exactly one transfer, for the first eligible (chunk, source) pair, the
\* chunks it lacks taken in the order of its strategy and, per chunk, the
\* sources in the order: non-seeds as shuffled for the round, then seeds.
\* A source is eligible if it is Altruistic or a Selfish peer without
\* completion round, has the chunk, and has residual capacity (its speed
\* minus the current_size of its uploads to other targets) left. The first
\* amount is min(target speed, residual capacity, chunk size). The peer
\* starts nothing only if there is no eligible pair.
\* ------------------------------------------------------------------------
SourceOrder ==
    SubSeq(shuffled_peers, number_seeds + 1, Len(shuffled_peers))
        \o SubSeq(shuffled_peers, 1, number_seeds)

IndexIn(seq, x) == CHOOSE i \in DOMAIN seq : seq[i] = x

Eligible(s, c, t) ==
    /\ \/ peers[s].selfishness = "Altruistic"
       \/ peers[s].selfishness = "Selfish" /\ peers[s].completion_round = NONE
    /\ peers[s].possessed_chunks[c]
    /\ Residual(s, t, FALSE) > 0

EligibleChunks(t) ==
    {c \in DOMAIN peers[t].possessed_chunks :
        ~peers[t].possessed_chunks[c] /\ \E s \in PeerIds : Eligible(s, c, t)}

C17_FirstEligiblePairStarted ==
    [][SearchStep =>
        LET t == ScheduledPeer
        IN  IF EligibleChunks(t) = {}
            THEN peers' = peers /\ exchanged_chunks' = exchanged_chunks
            ELSE /\ peers'[t].current_download # <<>>
                 /\ exchanged_chunks' = exchanged_chunks + 1
                 /\ LET d == peers'[t].current_download[1]
                        c == d.chunk_number
                        s == d.source_peer
                    IN  /\ c \in EligibleChunks(t)
                        /\ Eligible(s, c, t)
                        /\ \A i \in 1..(IndexIn(SourceOrder, s) - 1) :
                              ~Eligible(SourceOrder[i], c, t)
                        /\ peers[t].strategy = "RarestFirst" =>
                              \A c2 \in EligibleChunks(t) :
                                  IndexIn(temporary_chunks', c)
                                      <= IndexIn(temporary_chunks', c2)
                        /\ peers[t].strategy = "MostCommonFirst" =>
                              \A c2 \in EligibleChunks(t) :
                                  IndexIn(temporary_chunks', c)
                                      >= IndexIn(temporary_chunks', c2)
                        /\ d.target_peer = t
                        /\ d.current_size
                               = Min(peers[t].speed,
                                     Min(Residual(s, t, FALSE), chunk_size))
                        /\ d.downloaded_size = d.current_size
                        /\ peers'[s].current_uploads
                               = Append(peers[s].current_uploads, d)
                        /\ \A q \in PeerIds \ {s, t} : peers'[q] = peers[q]]_vars

\* The peer scheduled last has started a download from a non-seed peer
\* while a seed with capacity left has the chunk too
C17_Witness ==
    /\ pc = "schedule"
    /\ position > number_seeds
    /\ LET t == At(shuffled_peers, position - 1)
       IN  /\ round_start_peers[t].current_download = <<>>
           /\ peers[t].current_download # <<>>
           /\ peers[t].current_download[1].source_peer >= number_seeds
           /\ \E s \in PeerIds :
                 /\ s < number_seeds
                 /\ Committed(peers[s].current_uploads, t, FALSE) < peers[s].speed

\* ------------------------------------------------------------------------
\* C18: while the peers of a round are scheduled, temporary_chunks lists
\* every chunk once, in ascending order of the possession counts at the
\* start of the round, and the shuffling of ties moves a chunk only to a
\* place held by a chunk of the same count. So a RarestFirst peer that
\* starts a transfer of chunk c lacks no chunk with an eligible source and
\* a lower count than c, and a MostCommonFirst peer none with a higher one.
\* ------------------------------------------------------------------------
StartCount(c) ==
    Cardinality({p \in DOMAIN round_start_peers :
                    round_start_peers[p].possessed_chunks[c]})

C18_ChunkOrderSortedByPossession ==
    /\ [](pc = "schedule" =>
            /\ Len(temporary_chunks) = Len(file.chunks)
            /\ \A c \in 0..(Len(file.chunks) - 1) :
                  /\ \E i \in DOMAIN temporary_chunks : temporary_chunks[i] = c
                  /\ At(file.chunks, c).number_possessing_peers = StartCount(c)
            /\ \A i, j \in DOMAIN temporary_chunks :
                  i < j => StartCount(temporary_chunks[i])
                               <= StartCount(temporary_chunks[j]))
    /\ [][/\ (pc = "schedule" /\ pc' = "schedule") =>
                \A i \in DOMAIN temporary_chunks :
                    StartCount(temporary_chunks'[i]) = StartCount(temporary_chunks[i])
          /\ (SearchStep /\ peers'[ScheduledPeer].current_download # <<>>) =>
                LET t == ScheduledPeer
                    c == peers'[t].current_download[1].chunk_number
                IN  /\ peers[t].strategy = "RarestFirst" =>
                          \A c2 \in EligibleChunks(t) : StartCount(c2) >= StartCount(c)
                    /\ peers[t].strategy = "MostCommonFirst" =>
                          \A c2 \in EligibleChunks(t) : StartCount(c2) <= StartCount(c)]_vars

\* The MostCommonFirst peer scheduled last has started a transfer of a
\* chunk while it lacks another chunk, which fewer peers possess
C18_Witness ==
    /\ pc = "schedule"
    /\ position > number_seeds
    /\ LET t == At(shuffled_peers, position - 1)
       IN  /\ peers[t].strategy = "MostCommonFirst"
           /\ round_start_peers[t].current_download = <<>>
           /\ peers[t].current_download # <<>>
           /\ \E c2 \in DOMAIN peers[t].possessed_chunks :
                 /\ ~peers[t].possessed_chunks[c2]
                 /\ StartCount(c2)
                        < StartCount(peers[t].current_download[1].chunk_number)

\* ------------------------------------------------------------------------
\* C19: while the peers of a round are scheduled, the possession bits and
\* the completion rounds of the peers and the possession counts and the
\* completion rounds of the chunks are those of the start of the round,
\* also for a peer whose download has reached chunk_size; they change in
\* the sweep only. So the source of every transfer started or continued in
\* a round had the chunk when the round began, and a Selfish peer that
\* completes in a round has no completion round in any check of that round.
\* ------------------------------------------------------------------------
SameCompletionState(before, after) ==
    /\ DOMAIN after = DOMAIN before
    /\ \A p \in DOMAIN before :
          /\ after[p].possessed_chunks = before[p].possessed_chunks
          /\ after[p].completion_round = before[p].completion_round

C19_CompletionDeferredToSweep ==
    /\ [](pc = "schedule" =>
            /\ SameCompletionState(round_start_peers, peers)
            /\ \A p \in PeerIds :
                  peers[p].current_download # <<>> =>
                      round_start_peers[peers[p].current_download[1].source_peer]
                          .possessed_chunks[peers[p].current_download[1].chunk_number])
    /\ [][pc = "schedule" /\ pc' # "uploads" =>
             /\ SameCompletionState(peers, peers')
             /\ file' = file]_vars

\* The peer scheduled last has the whole of a chunk and does not possess it
\* yet, and the peer to be scheduled next has no download and lacks it too
C19_Witness ==
    /\ pc = "schedule"
    /\ position > number_seeds
    /\ position < Len(shuffled_peers)
    /\ LET t == At(shuffled_peers, position - 1)
           q == At(shuffled_peers, position)
       IN  /\ peers[t].current_download # <<>>
           /\ peers[t].current_download[1].downloaded_size = chunk_size
           /\ ~peers[t].possessed_chunks[peers[t].current_download[1].chunk_number]
           /\ peers[q].current_download = <<>>
           /\ ~peers[q].possessed_chunks[peers[t].current_download[1].chunk_number]

\* ------------------------------------------------------------------------
\* C20: between two rounds the two sides of every transfer agree: a peer t
\* has a download d exactly if the peer d.source_peer holds one upload
\* with the chunk and the target of d, and this upload is d, amounts
\* included; no peer holds another upload; every such record has less
\* than chunk_size delivered. The number_uploads of a peer is the number
\* of completed transfers it was the source of: the bookkeeping of a round
\* adds one for each transfer that the sweep of the round found finished.
\* ------------------------------------------------------------------------
RoundBoundary == pc \in {"loop", "done"}

MatchingUploads(d) ==
    {k \in DOMAIN peers[d.source_peer].current_uploads :
        /\ peers[d.source_peer].current_uploads[k].chunk_number = d.chunk_number
        /\ peers[d.source_peer].current_uploads[k].target_peer = d.target_peer}

\* The transfers to their end in which s was the source, as <<target, chunk>>
CompletedUploads(s) ==
    {x \in Transfers : peers[x[1]].possessed_chunks[x[2]] /\ TransferSource(x[1], x[2]) = s}

C20_TransferRecordsAgree ==
    /\ [](RoundBoundary =>
            \A p \in PeerIds :
               /\ peers[p].current_download # <<>> =>
                     LET d == peers[p].current_download[1]
                     IN  /\ d.target_peer = p
                         /\ Cardinality(MatchingUploads(d)) = 1
                         /\ \A k \in MatchingUploads(d) :
                               peers[d.source_peer].current_uploads[k] = d
                         /\ d.downloaded_size < chunk_size
               /\ \A k \in DOMAIN peers[p].current_uploads :
                     LET u == peers[p].current_uploads[k]
                     IN  /\ u.source_peer = p
                         /\ peers[u.target_peer].current_download = <<u>>
               /\ peers[p].number_uploads = Cardinality(CompletedUploads(p)))
    /\ [][pc = "uploads" =>
             \A p \in PeerIds :
                peers'[p].number_uploads
                    = peers[p].number_uploads
                        + Cardinality({i \in DOMAIN finished_uploads :
                                          finished_uploads[i].source_peer = p})]_vars

\* Between two rounds a peer that has completed an upload holds two uploads
\* that are under way
C20_Witness ==
    /\ pc = "loop"
    /\ \E p \in PeerIds :
          /\ peers[p].number_uploads > 0
          /\ Len(peers[p].current_uploads) > 1

\* ------------------------------------------------------------------------
\* C21: every peer with an index below number_seeds has all its possession
\* bits set, completion round 0 and no download, no peer holds an upload to
\* it and no chunk_transfer names it as target; the first number_seeds
\* places of shuffled_peers hold the indices of the seeds and the other
\* places the indices of the other peers, before and after every shuffle.
\* ------------------------------------------------------------------------
Seeds == {p \in PeerIds : p < number_seeds}

C21_SeedsNeverDownload ==
    DistributionBuilt =>
        /\ \A p \in Seeds :
              /\ AllChunksPossessed(p)
              /\ peers[p].completion_round = 0
              /\ peers[p].current_download = <<>>
              /\ UploadsTo(p) = {}
              /\ \A i \in EventIds : IsEvent(i, "chunk_transfer") => events[i][5] # p
        /\ shuffled_peers # <<>> =>
              /\ Len(shuffled_peers) = Cardinality(PeerIds)
              /\ {shuffled_peers[i] : i \in 1..number_seeds} = Seeds
              /\ {shuffled_peers[i] : i \in (number_seeds + 1)..Len(shuffled_peers)}
                     = PeerIds \ Seeds

\* In a round after the first, with two seeds, the shuffles have moved the
\* seeds from their places, and a peer is downloading
C21_Witness ==
    /\ pc = "schedule"
    /\ Len(rounds) > 1
    /\ number_seeds > 1
    /\ At(shuffled_peers, 0) # 0
    /\ \E p \in PeerIds : peers[p].current_download # <<>>

\* ------------------------------------------------------------------------
\* C22: in every state, and so after every scheduling step of every round,
\* the current_size of all the uploads a peer holds add up to at most its
\* speed, and the current_size of every upload and of every download is at
\* most the speed of its target.
\* ------------------------------------------------------------------------
C22_BandwidthNeverOverCommitted ==
    \A p \in PeerIds :
       /\ Committed(peers[p].current_uploads, NONE, FALSE) <= peers[p].speed
       /\ \A k \in DOMAIN peers[p].current_uploads :
             peers[p].current_uploads[k].current_size
                 <= peers[peers[p].current_uploads[k].target_peer].speed
       /\ peers[p].current_download # <<>> =>
             peers[p].current_download[1].current_size <= peers[p].speed

\* While a round is scheduled, a peer serves two targets with all of its
\* speed, one of them at less than the speed of that target
C22_Witness ==
    /\ pc = "schedule"
    /\ \E p \in PeerIds :
          /\ Len(peers[p].current_uploads) = 2
          /\ Committed(peers[p].current_uploads, NONE, FALSE) = peers[p].speed
          /\ \E k \in DOMAIN peers[p].current_uploads :
                peers[p].current_uploads[k].current_size
                    < peers[peers[p].current_uploads[k].target_peer].speed

\* ------------------------------------------------------------------------
\* C23: every download and every upload has between 1 and chunk_size
\* delivered, its current_size included; a new transfer starts with an
\* amount between 1 and chunk_size; a continuation finds less than
\* chunk_size delivered and adds between 1 and the remaining size; the
\* downloads the sweep finds finished have exactly chunk_size delivered.
\* ------------------------------------------------------------------------
WithinChunk(d) ==
    /\ 1 <= d.current_size
    /\ d.current_size <= d.downloaded_size
    /\ d.downloaded_size <= chunk_size

C23_DeliveredNeverExceedsChunkSize ==
    /\ [](/\ \A p \in PeerIds :
               /\ peers[p].current_download # <<>> =>
                     WithinChunk(peers[p].current_download[1])
               /\ \A k \in DOMAIN peers[p].current_uploads :
                     WithinChunk(peers[p].current_uploads[k])
          /\ \A k \in DOMAIN finished_uploads :
               finished_uploads[k].downloaded_size = chunk_size)
    /\ [][/\ ContinueStep =>
                LET before == peers[ScheduledPeer].current_download[1]
                    after == peers'[ScheduledPeer].current_download[1]
                IN  /\ before.downloaded_size < chunk_size
                    /\ after.downloaded_size - before.downloaded_size >= 1
                    /\ after.downloaded_size - before.downloaded_size
                           <= chunk_size - before.downloaded_size
          /\ (SearchStep /\ peers'[ScheduledPeer].current_download # <<>>) =>
                LET after == peers'[ScheduledPeer].current_download[1]
                IN  /\ after.downloaded_size >= 1
                    /\ after.downloaded_size <= chunk_size
                    /\ after.current_size = after.downloaded_size]_vars

\* The sweep has found a download finished whose last amount was the
\* remaining size, less than its target and its source could have moved
C23_Witness ==
    /\ pc = "uploads"
    /\ \E k \in DOMAIN finished_uploads :
          LET d == finished_uploads[k]
          IN  /\ d.current_size < d.downloaded_size
              /\ d.current_size < peers[d.target_peer].speed
              /\ d.current_size < Residual(d.source_peer, d.target_peer, FALSE)

\* ------------------------------------------------------------------------
\* C24: a download keeps its chunk, its source and its target, and only
\* gains bytes, until the sweep takes it away with chunk_size delivered and
\* marks the chunk as possessed; no download is for a chunk its peer
\* possesses or from the peer itself, and every chunk_transfer event names
\* the chunk, the amount and the source of the download of its target. When the
\* run has returned, the exchanged_chunks of all rounds, and the
\* number_uploads of all peers, add up to (peers - seeds) * chunks.
\* ------------------------------------------------------------------------
RECURSIVE SumExchangedChunks(_)
SumExchangedChunks(n) ==
    IF n = 0 THEN 0 ELSE rounds[n].exchanged_chunks + SumExchangedChunks(n - 1)

RECURSIVE SumNumberUploads(_)
SumNumberUploads(n) ==
    IF n = 0 THEN 0 ELSE peers[n - 1].number_uploads + SumNumberUploads(n - 1)

ExpectedTransfers == (Cardinality(PeerIds) - number_seeds) * Len(file.chunks)

C24_TransfersNeverAbandoned ==
    /\ [](/\ \A p \in PeerIds :
               peers[p].current_download # <<>> =>
                  LET d == peers[p].current_download[1]
                  IN  /\ d.target_peer = p
                      /\ d.source_peer # p
                      /\ ~peers[p].possessed_chunks[d.chunk_number]
          /\ pc = "done" =>
               /\ SumExchangedChunks(Len(rounds)) = ExpectedTransfers
               /\ SumNumberUploads(Cardinality(PeerIds)) = ExpectedTransfers)
    /\ [][/\ \A p \in (DOMAIN peers) \cap (DOMAIN peers') :
                peers[p].current_download # <<>> =>
                   LET d == peers[p].current_download[1]
                   IN  IF peers'[p].current_download # <<>>
                       THEN LET e == peers'[p].current_download[1]
                            IN  /\ e.chunk_number = d.chunk_number
                                /\ e.source_peer = d.source_peer
                                /\ e.target_peer = d.target_peer
                                /\ e.downloaded_size >= d.downloaded_size
                       ELSE /\ pc = "schedule" /\ pc' = "uploads"
                            /\ d.downloaded_size = chunk_size
                            /\ peers'[p].possessed_chunks[d.chunk_number]
          /\ (pc = "schedule" /\ Len(events') > Len(events)
                /\ events'[Len(events')][1] = "chunk_transfer") =>
                LET e == events'[Len(events')]
                IN  /\ e[4] # e[5]
                    /\ peers'[e[5]].current_download # <<>>
                    /\ peers'[e[5]].current_download[1].chunk_number = e[2]
                    /\ peers'[e[5]].current_download[1].current_size = e[3]
                    /\ peers'[e[5]].current_download[1].source_peer = e[4]]_vars

\* A run with two chunks and two peers that are no seeds has returned
\* after more than two rounds
C24_Witness ==
    /\ pc = "done"
    /\ ExpectedTransfers = 4
    /\ Len(rounds) > 3

============================================================================
